---- MODULE Spec2Model ----
(***************************************************************************)
(* Model of the earthquake chatbot front end (frontend/src/api.ts,         *)
(* App.tsx, components/InputBar.tsx) together with the orchestration       *)
(* pipeline it talks to.  The pipeline (the Python LangGraph agent) is     *)
(* not part of the TypeScript sources; it is modelled from the design      *)
(* document: one run per Turn, a whole-state snapshot after every          *)
(* component, thread state that persists between Turns.                    *)
(*                                                                         *)
(* A step is one event handler or one continuation after an await, with  *)
(* all the state updates it makes.  React renders the updates of an event  *)
(* handler before it dispatches the next event, so a handler reads the     *)
(* state the previous handler left; a continuation's updates can only be   *)
(* rendered late while isLoading still shows true, which blocks the input. *)
(*                                                                         *)
(* Text is a sequence of one-character strings, so that String.trim is a   *)
(* real operation.  An optional value (T | null | undefined) is the empty  *)
(* tuple or a one-element tuple.                                           *)
(***************************************************************************)
EXTENDS Integers, Sequences, FiniteSets, TLC

\* threadId, messages, inputValue, isLoading, error: the state of App
\* creating: how many createThread calls are pending; created: how many
\*           were made.  The server names its threads 1, 2, ... in the order
\*           it answers, so the newest thread is threadId + 1
\* runs:     one record per call of sendMessage, in the order of the calls
\* store:    the persisted state of every thread (the Turn State Store)
VARIABLES threadId, messages, inputValue, isLoading, error,
          creating, created, runs, store

vars == <<threadId, messages, inputValue, isLoading, error,
          creating, created, runs, store>>

----------------------------------------------------------------------------
(* Bounds of the model                                                     *)

\* number of sends accepted by handleSend in one behaviour
MaxTurns == 2
\* number of createThread calls in one behaviour, the one at mount included
MaxThreads == 2
\* number of events of one stream, where the stream is arbitrary
MaxEvents == 2
\* number of messages of a snapshot, where the snapshot is arbitrary
MaxMsgs == 2

----------------------------------------------------------------------------
(* Optional values                                                         *)

None == <<>>
Some(x) == <<x>>
IsSome(o) == o # <<>>
Val(o) == o[1]

\* threadId === null
NoThread == 0

----------------------------------------------------------------------------
(* Text                                                                    *)

\* the white space String.prototype.trim removes (the characters of it that
\* the model's texts use)
WhiteSpace == {" ", "\n", "\t"}

RECURSIVE TrimStart(_)
TrimStart(s) ==
  IF s = <<>> THEN s
  ELSE IF Head(s) \in WhiteSpace THEN TrimStart(Tail(s)) ELSE s

RECURSIVE TrimEnd(_)
TrimEnd(s) ==
  IF s = <<>> THEN s
  ELSE IF s[Len(s)] \in WhiteSpace THEN TrimEnd(SubSeq(s, 1, Len(s) - 1)) ELSE s

\* String.prototype.trim
Trim(s) == TrimEnd(TrimStart(s))

\* 'The agent returned no response.'
NoResponse ==
  <<"T","h","e"," ","a","g","e","n","t"," ","r","e","t","u","r","n","e","d",
    " ","n","o"," ","r","e","s","p","o","n","s","e",".">>

\* what the user can leave in the text area
InputTexts == { <<>>, <<" ", "\n">>, <<" ", "q", "\n">> }

\* setError message of initThread (without the back quotes of the original)
ConnectError ==
  "Could not connect to the LangGraph server. Make sure langgraph dev is running on port 2024."
\* fallback of handleSend for a thrown value that is not an Error
UnexpectedError == "An unexpected error occurred."
\* what the stream can throw: an Error with a message, or some other value
Thrown == { [isError |-> TRUE, message |-> "fetch failed"],
            [isError |-> FALSE, message |-> ""] }

----------------------------------------------------------------------------
(* Values exchanged with the pipeline                                      *)

\* the closed set of Action tags (design document, section 3)
Actions == {"build_execute_query", "show_glossary", "answer_question"}
\* finalState['action'] === undefined
NoAction == "undefined"

\* eval_failure_category === null
NoCategory == "null"

\* what the Evaluator can report: score, pass, failure category
Verdicts == { [score |-> 90, passed |-> TRUE,  category |-> NoCategory],
              [score |-> 40, passed |-> FALSE, category |-> "misaligned_intent"],
              [score |-> 30, passed |-> FALSE, category |-> "ungrounded_output"] }

\* answer texts the Summarizer can produce
SummaryTexts == { <<"s", " ">> }

\* direct answers the language model can produce for a non-data Turn:
\* text (with white space at its end), blank text, or content that is not a
\* string
DirectAnswers == { [ctype |-> "string", content |-> <<"a", " ">>],
                   [ctype |-> "string", content |-> <<" ">>],
                   [ctype |-> "array",  content |-> <<>>] }

\* a message of the thread state; id names the run that added it
HumanMsg(r, text) ==
  [id |-> r, type |-> "human", role |-> "undefined", ctype |-> "string", content |-> text]
AiMsg(r, ans) ==
  [id |-> r, type |-> "ai", role |-> "undefined", ctype |-> ans.ctype, content |-> ans.content]

\* the state of a thread nobody has run on yet
EmptyState == [action |-> NoAction, enriched_response |-> None, messages |-> <<>>]

----------------------------------------------------------------------------
(* sendMessage                                                             *)

\* slip: the first snapshot is kept
OnEvent_First(finalState, event) ==
  IF event.event = "values" /\ ~IsSome(finalState) THEN event.data ELSE finalState

\* slip: a 'values' event without data is passed over
OnEvent_SkipNull(finalState, event) ==
  IF event.event = "values" /\ IsSome(event.data) THEN event.data ELSE finalState

\* the body of the for-await loop: only a 'values' event replaces finalState
OnEvent(finalState, event) ==
  IF event.event = "values" THEN event.data ELSE finalState

\* slip: a blank AI message ends the scan
IsAnswer_Blank(msg) ==
  /\ (msg.type = "ai" \/ msg.role = "assistant")
  /\ msg.ctype = "string"

\* slip: only the type tag is looked at
IsAnswer_TypeOnly(msg) ==
  /\ msg.type = "ai"
  /\ msg.ctype = "string"
  /\ Len(Trim(msg.content)) > 0

\* the condition of the backwards scan for the last AI message
IsAnswer(msg) ==
  /\ (msg.type = "ai" \/ msg.role = "assistant")
  /\ msg.ctype = "string"
  /\ Len(Trim(msg.content)) > 0

\* the backwards scan itself, from index i down to 1; '' when nothing matches
RECURSIVE LastAiContent(_, _)
LastAiContent(msgs, i) ==
  IF i < 1 THEN <<>>
  ELSE IF IsAnswer(msgs[i]) THEN msgs[i].content
  ELSE LastAiContent(msgs, i - 1)

\* slip: enriched_response is used whenever it is present
UseEnriched_Ungated(st) ==
  IsSome(st.enriched_response)

\* slip: a failing evaluation hides the EnrichedResponse
UseEnriched_PassedOnly(st) ==
  /\ st.action = "build_execute_query" /\ IsSome(st.enriched_response)
  /\ Val(st.enriched_response).eval_passed = Some(TRUE)

\* the action-gated use of enriched_response
UseEnriched(st) ==
  st.action = "build_execute_query" /\ IsSome(st.enriched_response)

\* finalState['messages'] ?? []
MessagesOf(st) == IF "messages" \in DOMAIN st THEN st.messages ELSE <<>>

\* what sendMessage returns once the stream has ended with this finalState
SendMessageResult(finalState) ==
  IF ~IsSome(finalState)
  THEN [content |-> NoResponse, enriched |-> None]
  ELSE LET st == Val(finalState) IN
       IF UseEnriched(st)
       THEN [content  |-> Val(st.enriched_response).answer_text,
             enriched |-> st.enriched_response]
       ELSE LET content == Trim(LastAiContent(MessagesOf(st), Len(MessagesOf(st)))) IN
            [content  |-> IF content = <<>> THEN NoResponse ELSE content,
             enriched |-> None]

----------------------------------------------------------------------------
(* Initial state: App has mounted and its effect has called initThread     *)

Init ==
  /\ threadId = NoThread
  /\ messages = <<>>
  /\ inputValue = <<>>
  /\ isLoading = FALSE
  /\ error = None
  /\ creating = 1
  /\ created = 1
  /\ runs = <<>>
  /\ store = [t \in 1..MaxThreads |-> EmptyState]

\* the runs whose sendMessage promise handleSend is still awaiting
InFlight == { r \in 1..Len(runs) : runs[r].pc # "done" }

----------------------------------------------------------------------------
(* App: thread creation and New Chat                                       *)

\* createThread resolves inside initThread: setThreadId(id); setError(null)
CreateThreadResolve ==
  /\ creating > 0
  /\ creating' = creating - 1
  /\ threadId' = threadId + 1
  /\ error' = None
  /\ UNCHANGED <<messages, inputValue, isLoading, created, runs, store>>

\* slip: the catch branch also drops the thread id
CreateThreadReject_DropsThread ==
  /\ creating > 0
  /\ creating' = creating - 1
  /\ threadId' = NoThread
  /\ error' = Some(ConnectError)
  /\ UNCHANGED <<messages, inputValue, isLoading, created, runs, store>>

\* createThread rejects inside initThread: the catch branch
CreateThreadReject ==
  /\ creating > 0
  /\ creating' = creating - 1
  /\ error' = Some(ConnectError)
  /\ UNCHANGED <<threadId, messages, inputValue, isLoading, created, runs, store>>

\* the New chat button (disabled while isLoading) calls handleNewChat, which
\* clears the conversation and calls initThread
HandleNewChat ==
  /\ ~isLoading
  /\ created < MaxThreads
  /\ messages' = <<>>
  /\ inputValue' = <<>>
  /\ error' = None
  /\ creating' = creating + 1
  /\ created' = created + 1
  /\ UNCHANGED <<threadId, isLoading, runs, store>>

\* InputBar: the disabled attribute of the text area
TextAreaDisabled == isLoading

\* the text area reports a new value
OnChange(v) ==
  /\ ~TextAreaDisabled
  /\ v # inputValue
  /\ inputValue' = v
  /\ UNCHANGED <<threadId, messages, isLoading, error, creating, created, runs, store>>

----------------------------------------------------------------------------
(* App.handleSend, up to the call of sendMessage                           *)

\* the run sendMessage(threadId, userMessage.content) opens
NewRun(thread, text) ==
  [thread |-> thread, userMessage |-> text, pc |-> "stream", stage |-> "metadata",
   work |-> EmptyState, seen |-> <<>>, finalState |-> None,
   result |-> None, thrown |-> None]

\* slip: the input is tested without trim
SendGuard_NoTrim ==
  /\ inputValue # <<>>
  /\ ~isLoading
  /\ threadId # NoThread

\* the early return of handleSend
SendGuard ==
  /\ Trim(inputValue) # <<>>
  /\ ~isLoading
  /\ threadId # NoThread

\* slip: setIsLoading(true) is missing
HandleSend_NoLoading ==
  /\ SendGuard
  /\ Len(runs) < MaxTurns
  /\ LET r == Len(runs) + 1
         userMessage == [id |-> r, role |-> "human", content |-> Trim(inputValue),
                         enriched |-> None]
     IN /\ messages' = Append(messages, userMessage)
        /\ runs' = Append(runs, NewRun(threadId, userMessage.content))
  /\ inputValue' = <<>>
  /\ error' = None
  /\ UNCHANGED <<threadId, isLoading, creating, created, store>>

HandleSend ==
  /\ SendGuard
  /\ Len(runs) < MaxTurns
  /\ LET r == Len(runs) + 1
         userMessage == [id |-> r, role |-> "human", content |-> Trim(inputValue),
                         enriched |-> None]
     IN /\ messages' = Append(messages, userMessage)
        /\ runs' = Append(runs, NewRun(threadId, userMessage.content))
  /\ inputValue' = <<>>
  /\ isLoading' = TRUE
  /\ error' = None
  /\ UNCHANGED <<threadId, creating, created, store>>

\* InputBar: canSend enables the Send button
CanSend == ~isLoading /\ Len(Trim(inputValue)) > 0

\* slip: the Shift key is not looked at
InvokesOnSend_AnyEnter(key, shiftKey) ==
  /\ key = "Enter"
  /\ ~isLoading /\ Trim(inputValue) # <<>>

\* InputBar.handleKeyDown: the conditions under which it calls onSend
InvokesOnSend(key, shiftKey) ==
  /\ key = "Enter" /\ ~shiftKey
  /\ ~isLoading /\ Trim(inputValue) # <<>>

\* a key is pressed in the text area; onSend is handleSend
HandleKeyDown(key, shiftKey) ==
  /\ InvokesOnSend(key, shiftKey)
  /\ HandleSend

\* a click on the Send button
ClickSend ==
  /\ CanSend
  /\ HandleSend

----------------------------------------------------------------------------
(* The run: the pipeline emits events, the loop of sendMessage takes them  *)

ValuesEvent(st) == [event |-> "values", data |-> Some(st)]
OtherEvent(kind) == [event |-> kind, data |-> None]

\* one iteration of the for-await loop of sendMessage on run record run
Deliver(run, ev) ==
  [run EXCEPT !.seen = Append(@, ev), !.finalState = OnEvent(@, ev)]

Streaming(r) == r \in 1..Len(runs) /\ runs[r].pc = "stream"

\* a component has completed: the whole state is emitted as a snapshot
Emit(r, newWork, next) ==
  /\ runs' = [runs EXCEPT ![r] =
                Deliver([runs[r] EXCEPT !.work = newWork, !.stage = next],
                        ValuesEvent(newWork))]
  /\ UNCHANGED <<threadId, messages, inputValue, isLoading, error,
                 creating, created, store>>

\* the transport announces the run before any state
RunMetadata(r) ==
  /\ Streaming(r) /\ runs[r].stage = "metadata"
  /\ runs' = [runs EXCEPT ![r] =
                Deliver([runs[r] EXCEPT !.stage = "input"], OtherEvent("metadata"))]
  /\ UNCHANGED <<threadId, messages, inputValue, isLoading, error,
                 creating, created, store>>

\* the input is applied to the thread's persisted state
RunInput(r) ==
  /\ Streaming(r) /\ runs[r].stage = "input"
  /\ Emit(r, [store[runs[r].thread] EXCEPT
                !.messages = Append(@, HumanMsg(r, runs[r].userMessage))],
          "normalizer")

\* Intent Normalizer: exactly one Action per Turn
Normalizer(r, a) ==
  /\ Streaming(r) /\ runs[r].stage = "normalizer"
  /\ Emit(r, [runs[r].work EXCEPT !.action = a], "supervisor")

\* Supervisor/Router: the data path goes on to the Query Executor; the other
\* two actions get a direct answer and leave enriched_response alone
Supervisor(r, ans) ==
  /\ Streaming(r) /\ runs[r].stage = "supervisor"
  /\ IF runs[r].work.action = "build_execute_query"
     THEN Emit(r, runs[r].work, "executor")
     ELSE Emit(r, [runs[r].work EXCEPT !.messages = Append(@, AiMsg(r, ans))],
               "commit")

\* Query Executor: the Gateway calls are made and logged
QueryExecutor(r) ==
  /\ Streaming(r) /\ runs[r].stage = "executor"
  /\ Emit(r, runs[r].work, "summarizer")

\* Summarizer: the EnrichedResponse of this Turn appears, not yet scored
Summarizer(r, text) ==
  /\ Streaming(r) /\ runs[r].stage = "summarizer"
  /\ Emit(r, [runs[r].work EXCEPT !.enriched_response =
                Some([request_id |-> r, answer_text |-> text,
                      eval_score |-> None, eval_passed |-> None,
                      eval_failure_category |-> NoCategory])],
          "evaluator")

\* Evaluator: the score, the verdict and the failure category are filled in
Evaluator(r, v) ==
  /\ Streaming(r) /\ runs[r].stage = "evaluator"
  /\ Emit(r, [runs[r].work EXCEPT !.enriched_response =
                Some([Val(@) EXCEPT !.eval_score = Some(v.score),
                                    !.eval_passed = Some(v.passed),
                                    !.eval_failure_category = v.category])],
          "commit")

\* Turn State Store update: the Turn's state becomes the thread's state
Commit(r) ==
  /\ Streaming(r) /\ runs[r].stage = "commit"
  /\ store' = [store EXCEPT ![runs[r].thread] = runs[r].work]
  /\ runs' = [runs EXCEPT ![r].stage = "end"]
  /\ UNCHANGED <<threadId, messages, inputValue, isLoading, error, creating, created>>

\* the stages in which a component uses the language model or the catalog
Components == {"normalizer", "supervisor", "executor", "summarizer", "evaluator"}

\* upstream capability unavailable, reported in the stream: an 'error' event
\* closes the stream and the thread's state is not updated
RunError(r) ==
  /\ Streaming(r) /\ runs[r].stage \in Components
  /\ runs' = [runs EXCEPT ![r] =
                Deliver([runs[r] EXCEPT !.stage = "failed"], OtherEvent("error"))]
  /\ UNCHANGED <<threadId, messages, inputValue, isLoading, error,
                 creating, created, store>>

\* the request or the connection fails: the iteration throws and
\* sendMessage rejects
StreamThrow(r, t) ==
  /\ Streaming(r) /\ runs[r].stage \in Components \cup {"metadata"}
  /\ runs' = [runs EXCEPT ![r].pc = "threw", ![r].thrown = Some(t)]
  /\ UNCHANGED <<threadId, messages, inputValue, isLoading, error,
                 creating, created, store>>

\* the stream has ended: sendMessage returns
StreamEnd(r) ==
  /\ Streaming(r) /\ runs[r].stage \in {"end", "failed"}
  /\ runs' = [runs EXCEPT ![r].pc = "returned",
                          ![r].result = Some(SendMessageResult(runs[r].finalState))]
  /\ UNCHANGED <<threadId, messages, inputValue, isLoading, error,
                 creating, created, store>>

----------------------------------------------------------------------------
(* App.handleSend after the await                                          *)

\* what a settled run leaves behind: the locals of sendMessage are gone
Settled(run) ==
  [thread |-> NoThread, userMessage |-> <<>>, pc |-> "done", stage |-> "end",
   work |-> EmptyState, seen |-> <<>>, finalState |-> None,
   result |-> None, thrown |-> None]

\* slip: the list is rebuilt from the messages the callback closed over, which
\* lack the human message of this send
HandleSendResolve_StaleList(r) ==
  /\ r \in 1..Len(runs) /\ runs[r].pc = "returned"
  /\ LET res == Val(runs[r].result)
         assistantMessage == [id |-> r, role |-> "assistant",
                              content |-> res.content, enriched |-> res.enriched]
     IN messages' = Append(SubSeq(messages, 1, Len(messages) - 1), assistantMessage)
  /\ isLoading' = FALSE
  /\ runs' = [runs EXCEPT ![r] = Settled(runs[r])]
  /\ UNCHANGED <<threadId, inputValue, error, creating, created, store>>

\* the try branch: the assistant message is appended; finally: setIsLoading(false)
HandleSendResolve(r) ==
  /\ r \in 1..Len(runs) /\ runs[r].pc = "returned"
  /\ LET res == Val(runs[r].result)
         assistantMessage == [id |-> r, role |-> "assistant",
                              content |-> res.content, enriched |-> res.enriched]
     IN messages' = Append(messages, assistantMessage)
  /\ isLoading' = FALSE
  /\ runs' = [runs EXCEPT ![r] = Settled(runs[r])]
  /\ UNCHANGED <<threadId, inputValue, error, creating, created, store>>

\* err instanceof Error ? err.message : 'An unexpected error occurred.'
ErrorText(t) == IF t.isError THEN t.message ELSE UnexpectedError

\* slip: the failure is shown as an assistant message
HandleSendReject_AsMessage(r) ==
  /\ r \in 1..Len(runs) /\ runs[r].pc = "threw"
  /\ messages' = Append(messages, [id |-> r, role |-> "assistant",
                                    content |-> NoResponse, enriched |-> None])
  /\ error' = Some(ErrorText(Val(runs[r].thrown)))
  /\ isLoading' = FALSE
  /\ runs' = [runs EXCEPT ![r] = Settled(runs[r])]
  /\ UNCHANGED <<threadId, inputValue, creating, created, store>>

\* slip: setIsLoading(false) sits at the end of the try branch, not in finally
HandleSendReject_NoFinally(r) ==
  /\ r \in 1..Len(runs) /\ runs[r].pc = "threw"
  /\ error' = Some(ErrorText(Val(runs[r].thrown)))
  /\ runs' = [runs EXCEPT ![r] = Settled(runs[r])]
  /\ UNCHANGED <<threadId, messages, inputValue, isLoading, creating, created, store>>

\* the catch branch: setError(msg); finally: setIsLoading(false)
HandleSendReject(r) ==
  /\ r \in 1..Len(runs) /\ runs[r].pc = "threw"
  /\ error' = Some(ErrorText(Val(runs[r].thrown)))
  /\ isLoading' = FALSE
  /\ runs' = [runs EXCEPT ![r] = Settled(runs[r])]
  /\ UNCHANGED <<threadId, messages, inputValue, creating, created, store>>

----------------------------------------------------------------------------

\* one step of run r, the language model answering from answers and the
\* Evaluator from verdicts
RunStepOver(r, answers, verdicts) ==
  \/ RunMetadata(r)
  \/ RunInput(r)
  \/ \E a \in Actions : Normalizer(r, a)
  \/ \E ans \in answers : Supervisor(r, ans)
  \/ QueryExecutor(r)
  \/ \E text \in SummaryTexts : Summarizer(r, text)
  \/ \E v \in verdicts : Evaluator(r, v)
  \/ Commit(r)
  \/ RunError(r)
  \/ \E t \in Thrown : StreamThrow(r, t)
  \/ StreamEnd(r)

RunStep(r) == RunStepOver(r, DirectAnswers, Verdicts)

Next ==
  \/ CreateThreadResolve
  \/ CreateThreadReject
  \/ HandleNewChat
  \/ \E v \in InputTexts : OnChange(v)
  \/ \E shiftKey \in BOOLEAN : HandleKeyDown("Enter", shiftKey)
  \/ ClickSend
  \/ \E r \in 1..MaxTurns : RunStep(r)
  \/ \E r \in 1..MaxTurns : HandleSendResolve(r)
  \/ \E r \in 1..MaxTurns : HandleSendReject(r)

Spec == Init /\ [][Next]_vars

\* The specification for the termination of a send.  No guard of the program
\* or of the pipeline reads an answer text or a verdict, so one of each is
\* enough here; every stage, both kinds of failure and all of App's
\* handlers are as in Next.
OneAnswer == { [ctype |-> "string", content |-> <<"a", " ">>] }
OneVerdict == { [score |-> 40, passed |-> FALSE, category |-> "misaligned_intent"] }

\* what moves a started call of sendMessage on: the run's next step, or the
\* continuation of handleSend once the promise has settled
RunProgress ==
  \E r \in 1..MaxTurns :
    \/ RunStepOver(r, OneAnswer, OneVerdict)
    \/ HandleSendResolve(r)
    \/ HandleSendReject(r)

FairNext ==
  \/ CreateThreadResolve
  \/ CreateThreadReject
  \/ HandleNewChat
  \/ \E v \in InputTexts : OnChange(v)
  \/ \E shiftKey \in BOOLEAN : HandleKeyDown("Enter", shiftKey)
  \/ ClickSend
  \/ RunProgress

\* a run that has been started goes on until handleSend has settled it
FairSpec ==
  Init /\ [][FairNext]_vars /\ WF_vars(RunProgress)

----------------------------------------------------------------------------
(* MessageBubble: the evaluation badge of an enriched assistant message    *)

\* <span>Quality score: {enriched.eval_score}/100</span>
ScoreSpan(e) == [kind |-> "score", text |-> e.eval_score]

\* <span className="eval-badge-category">...</span>
CategorySpan(e) ==
  [kind |-> "category",
   text |-> IF e.eval_failure_category = "misaligned_intent"
            THEN "Misaligned Intent" ELSE "Ungrounded Output"]

\* slip: the category is rendered outside the failing branch
Badge_LabelAnywhere(e) ==
  [class |-> IF e.eval_passed = Some(TRUE) THEN "pass" ELSE "fail",
   spans |-> <<ScoreSpan(e)>> \o
             (IF e.eval_failure_category # NoCategory THEN <<CategorySpan(e)>> ELSE <<>>)]

\* the eval-badge element: its class modifier and the spans inside it
Badge(e) ==
  IF e.eval_passed = Some(TRUE)
  THEN [class |-> "pass", spans |-> <<ScoreSpan(e)>>]
  ELSE [class |-> "fail",
        spans |-> <<ScoreSpan(e)>> \o
                  (IF e.eval_failure_category # NoCategory
                   THEN <<CategorySpan(e)>> ELSE <<>>)]

----------------------------------------------------------------------------
(* sendMessage and the continuation of handleSend on an arbitrary stream   *)

\* the messages a snapshot can hold: human text, AI text, blank AI text, AI
\* content that is no string, and text tagged by role instead of type
SnapMessages ==
  { HumanMsg(1, <<"q">>),
    AiMsg(1, [ctype |-> "string", content |-> <<"a", " ">>]),
    AiMsg(1, [ctype |-> "string", content |-> <<" ">>]),
    AiMsg(1, [ctype |-> "array",  content |-> <<>>]),
    [id |-> 1, type |-> "undefined", role |-> "assistant", ctype |-> "string",
     content |-> <<"b">>] }

SnapMessageLists ==
  UNION { [1..n -> SnapMessages] : n \in 0..MaxMsgs }

\* the enriched_response a snapshot can hold: unscored, or scored with any
\* combination of eval_passed and eval_failure_category the type allows
SnapEnriched ==
  { [request_id |-> 1, answer_text |-> <<"s">>, eval_score |-> None,
     eval_passed |-> None, eval_failure_category |-> NoCategory] }
  \cup
  { [request_id |-> 1, answer_text |-> <<"s">>, eval_score |-> Some(50),
     eval_passed |-> Some(p), eval_failure_category |-> c] :
       p \in BOOLEAN, c \in {NoCategory, "misaligned_intent", "ungrounded_output"} }

\* the snapshots a 'values' event can carry; messages can be missing
Snapshots ==
  LET acts == Actions \cup {NoAction}
      enrs == {None} \cup { Some(e) : e \in SnapEnriched }
  IN { [action |-> a, enriched_response |-> e] : a \in acts, e \in enrs }
     \cup
     { [action |-> a, enriched_response |-> e, messages |-> l] :
         a \in acts, e \in enrs, l \in SnapMessageLists }

\* handleSend awaits sendMessage on thread 1; st is the snapshot the server
\* holds, and the transport can close the stream at any moment
SendInit ==
  /\ threadId = 1
  /\ messages = << [id |-> 1, role |-> "human", content |-> <<"q">>, enriched |-> None] >>
  /\ inputValue = <<>>
  /\ isLoading = TRUE
  /\ error = None
  /\ creating = 0
  /\ created = 1
  /\ store = [t \in 1..MaxThreads |-> EmptyState]
  /\ \E st \in Snapshots :
       runs = << [NewRun(1, <<"q">>) EXCEPT !.work = st, !.stage = "end"] >>

\* the events the stream can yield: the snapshot, a 'values' event without
\* data, and events of other kinds
StreamEvents(r) ==
  { ValuesEvent(runs[r].work), [event |-> "values", data |-> None],
    OtherEvent("metadata"), OtherEvent("error") }

\* the stream yields event ev to the loop of sendMessage
TakeEvent(r, ev) ==
  /\ Streaming(r)
  /\ Len(runs[r].seen) < MaxEvents
  /\ runs' = [runs EXCEPT ![r] = Deliver(@, ev)]
  /\ UNCHANGED <<threadId, messages, inputValue, isLoading, error, creating,
                 created, store>>

SendNext ==
  \/ \E ev \in StreamEvents(1) : TakeEvent(1, ev)
  \/ StreamEnd(1)
  \/ HandleSendResolve(1)

SendSpec == SendInit /\ [][SendNext]_vars

----------------------------------------------------------------------------
(* Properties                                                              *)

MaxOf(S) == CHOOSE x \in S : \A y \in S : y <= x

Returned == { r \in 1..Len(runs) : runs[r].pc = "returned" }
FinalOf(r) == Val(runs[r].finalState)
ResultOf(r) == Val(runs[r].result)
HasFinal(r) == IsSome(runs[r].finalState)

\* C1: sendMessage returns a non-null enriched exactly when the final
\* snapshot has action build_execute_query and carries an enriched_response;
\* enriched is then that enriched_response and content its answer_text.
C1_StalenessGate ==
  \A r \in Returned :
    /\ IsSome(ResultOf(r).enriched) <=>
         ( /\ HasFinal(r)
           /\ FinalOf(r).action = "build_execute_query"
           /\ IsSome(FinalOf(r).enriched_response) )
    /\ IsSome(ResultOf(r).enriched) =>
         /\ ResultOf(r).enriched = FinalOf(r).enriched_response
         /\ ResultOf(r).content = Val(FinalOf(r).enriched_response).answer_text

\* sendMessage has returned the EnrichedResponse of a scored data Turn
C1_Witness ==
  \E r \in Returned :
    /\ IsSome(ResultOf(r).enriched)
    /\ FinalOf(r).action = "build_execute_query"
    /\ Val(ResultOf(r).enriched).eval_passed = Some(TRUE)

\* C2: the EnrichedResponse attached to a Turn's assistant message was
\* produced in that Turn (request_id names the run that produced it, id the
\* send the message belongs to), also when the stream ended early.
C2_NeverReused ==
  \A i \in 1..Len(messages) :
    (messages[i].role = "assistant" /\ IsSome(messages[i].enriched)) =>
      Val(messages[i].enriched).request_id = messages[i].id

\* the step in which handleSend resumes after sendMessage has returned for run r
Resolves(r) == r \in Returned /\ runs'[r].pc = "done"

\* the message a resolving step leaves at the end of the list
Appended == messages'[Len(messages')]

NonData(r) ==
  HasFinal(r) /\ FinalOf(r).action \in {"show_glossary", "answer_question"}

\* the assistant-authored messages of a snapshot, and those with an answer in them
AssistantIdx(msgs) ==
  { i \in 1..Len(msgs) : msgs[i].type = "ai" \/ msgs[i].role = "assistant" }
AnswerIdx(msgs) ==
  { i \in AssistantIdx(msgs) : msgs[i].ctype = "string" /\ Trim(msgs[i].content) # <<>> }

\* C3 as stated: for a final snapshot with action show_glossary or
\* answer_question, the assistant message carries no EnrichedResponse and its
\* content is the text of the latest assistant-authored message of the
\* snapshot (white space around the text is not held against the claim).
C3_LatestAssistantText ==
  [][\A r \in 1..Len(runs) :
       LET msgs == FinalOf(r).messages
           last == MaxOf(AssistantIdx(msgs))
       IN (/\ Resolves(r) /\ NonData(r)
           /\ AssistantIdx(msgs) # {}
           /\ msgs[last].ctype = "string")
          => (/\ Appended.role = "assistant"
              /\ ~IsSome(Appended.enriched)
              /\ Appended.content = Trim(msgs[last].content))]_vars

\* C3 as amended: for a final snapshot with action show_glossary or
\* answer_question, the assistant message carries no EnrichedResponse, also
\* when the snapshot holds one of an earlier Turn, and its content is the
\* trimmed text of the latest assistant-authored message whose content is a
\* string that is not blank, or the fixed no-response text when there is none.
C3_NonDataAnswer ==
  [][\A r \in 1..Len(runs) :
       LET msgs == FinalOf(r).messages
           idx  == AnswerIdx(msgs)
       IN (Resolves(r) /\ NonData(r))
          => (/\ Appended.role = "assistant"
              /\ Appended.id = r
              /\ ~IsSome(Appended.enriched)
              /\ Appended.content =
                   IF idx = {} THEN NoResponse ELSE Trim(msgs[MaxOf(idx)].content))]_vars

\* a non-data Turn has been answered while the thread still held the
\* EnrichedResponse of an earlier Turn
C3_Witness ==
  /\ Len(messages) = 4
  /\ IsSome(messages[2].enriched)
  /\ messages[4].role = "assistant" /\ messages[4].id = 2
  /\ ~IsSome(messages[4].enriched)
  /\ store[threadId].action \in {"show_glossary", "answer_question"}
  /\ IsSome(store[threadId].enriched_response)

\* the data of the last 'values' event among the events a run has taken
LastValues(seen) ==
  LET idx == { i \in 1..Len(seen) : seen[i].event = "values" }
  IN IF idx = {} THEN None ELSE seen[MaxOf(idx)].data

\* C4: what sendMessage returns is a function of the last 'values' event of
\* the stream alone, and while the stream is open nothing has been returned
\* and no assistant message of the run is in the list.
C4_LastSnapshotWins ==
  \A r \in 1..Len(runs) :
    /\ runs[r].pc = "returned" =>
         ResultOf(r) = SendMessageResult(LastValues(runs[r].seen))
    /\ runs[r].pc = "stream" =>
         /\ ~IsSome(runs[r].result)
         /\ \A i \in 1..Len(messages) :
              ~(messages[i].role = "assistant" /\ messages[i].id = r)

\* a run returned after several snapshots, the last event not being a snapshot
C4_Witness ==
  \E r \in Returned :
    LET seen == runs[r].seen IN
    /\ Cardinality({ i \in 1..Len(seen) : seen[i].event = "values" }) >= 3
    /\ seen[Len(seen)].event = "error"
    /\ seen[1].event = "metadata"
    /\ IsSome(ResultOf(r).enriched)

\* C5: at no time are two sendMessage runs in flight; a run is started only
\* when the one before it has been settled by handleSend.
C5_OneRunInFlight ==
  Cardinality(InFlight) <= 1

\* a second Turn is running after the first one has been settled
C5_Witness ==
  /\ Len(runs) = 2
  /\ runs[1].pc = "done"
  /\ runs[2].pc = "stream" /\ runs[2].stage = "supervisor"
  /\ isLoading

\* the step in which handleSend resumes after sendMessage has rejected for run r
Rejects(r) == r \in 1..Len(runs) /\ runs[r].pc = "threw" /\ runs'[r].pc = "done"

\* C6: when sendMessage rejects, error becomes the failure message (the
\* message of the Error, or the fixed text for any other thrown value), no
\* message is appended and the recorded messages and the thread states stay
\* as they are.
C6_FailedTurn ==
  [][\A r \in 1..Len(runs) :
       Rejects(r) =>
         LET t == Val(runs[r].thrown) IN
         /\ error' = Some(IF t.isError THEN t.message
                          ELSE "An unexpected error occurred.")
         /\ messages' = messages
         /\ store' = store]_vars

\* the second Turn of a conversation has failed; the first is still there
C6_Witness ==
  /\ Len(messages) = 3
  /\ messages[2].role = "assistant" /\ IsSome(messages[2].enriched)
  /\ messages[3].role = "human" /\ messages[3].id = 2
  /\ Len(runs) = 2 /\ InFlight = {}
  /\ error = Some("fetch failed")
  /\ ~isLoading

\* the final snapshot of run r is that of a completed or scored data Turn
DataFinal(r) ==
  /\ HasFinal(r)
  /\ FinalOf(r).action = "build_execute_query"
  /\ IsSome(FinalOf(r).enriched_response)

\* C7: a data Turn is delivered in the same way whatever eval_passed says:
\* content is the answer text and the EnrichedResponse is attached with its
\* score and category; and the list of runs grows only by one run in the
\* step that appends the human message of a send.
C7_EvaluationObservational ==
  [][/\ \A r \in 1..Len(runs) :
          (Resolves(r) /\ DataFinal(r)) =>
            Appended = [id |-> r, role |-> "assistant",
                        content |-> Val(FinalOf(r).enriched_response).answer_text,
                        enriched |-> FinalOf(r).enriched_response]
     /\ Len(runs') # Len(runs) =>
          /\ Len(runs') = Len(runs) + 1
          /\ Len(messages') = Len(messages) + 1
          /\ Appended.role = "human" /\ Appended.id = Len(runs')]_vars

\* a data Turn that failed its evaluation has been delivered and no run is left
C7_Witness ==
  /\ Len(messages) = 2
  /\ messages[2].role = "assistant"
  /\ IsSome(messages[2].enriched)
  /\ Val(messages[2].enriched).eval_passed = Some(FALSE)
  /\ Val(messages[2].enriched).eval_failure_category = "misaligned_intent"
  /\ Val(messages[2].enriched).eval_score = Some(40)
  /\ messages[2].content = Val(messages[2].enriched).answer_text
  /\ Len(runs) = 1 /\ InFlight = {}

\* C8: sendMessage does not return normally for a final snapshot whose
\* action is none of the three Action tags.
C8_ExhaustiveDispatch ==
  \A r \in Returned :
    HasFinal(r) => FinalOf(r).action \in Actions

\* the order of the recorded messages
C9_Order ==
  /\ \A i \in 1..Len(messages) :
       messages[i].role = "assistant" =>
         /\ i > 1
         /\ messages[i-1].role = "human"
         /\ messages[i-1].id = messages[i].id
  /\ \A i, j \in 1..Len(messages) :
       i < j => /\ messages[i].id <= messages[j].id
                /\ messages[i].role = messages[j].role => messages[i].id < messages[j].id

\* what one step may do to the list
C9_Step ==
  \/ messages' = messages
  \/ /\ Len(messages') = Len(messages) + 1
     /\ SubSeq(messages', 1, Len(messages)) = messages
  \/ /\ messages' = <<>>
     /\ created' = created + 1

\* C9: the message list changes only by appending one message or by the
\* reset of New Chat; every assistant message directly follows the human
\* message of its own send, and the sends appear in order, each with at most
\* one assistant message.
C9_AppendOnly ==
  []C9_Order /\ [][C9_Step]_vars

\* two Turns are recorded one after the other
C9_Witness ==
  /\ Len(messages) = 4
  /\ messages[1].role = "human" /\ messages[2].role = "assistant"
  /\ messages[3].role = "human" /\ messages[4].role = "assistant"
  /\ messages[1].id = 1 /\ messages[4].id = 2

\* C10: isLoading is true exactly while a run started by handleSend has not
\* been settled by it, and it always returns to false.
C10_Loading ==
  /\ [](isLoading <=> InFlight # {})
  /\ isLoading ~> ~isLoading

\* a send has been settled by a rejection and the flag is down again
C10_Witness ==
  /\ Len(runs) = 1 /\ InFlight = {}
  /\ error = Some(UnexpectedError)
  /\ ~isLoading

\* the text holds nothing but white space
Blank(text) == \A i \in 1..Len(text) : text[i] \in WhiteSpace

\* a step in which a run is started
StartsRun == Len(runs') > Len(runs)

\* C11: while the input is blank, isLoading is true or there is no thread,
\* handleSend can change nothing and starts no run; a step that starts a run
\* is taken with none of the three holding, appends one human message whose
\* content is the trimmed input, empties the input, raises isLoading, clears
\* error, and starts the run on the current thread with the trimmed input.
C11_HandleSend ==
  /\ []((Blank(inputValue) \/ isLoading \/ threadId = NoThread)
          => ~ENABLED <<HandleSend>>_vars)
  /\ [][StartsRun =>
          /\ ~Blank(inputValue) /\ ~isLoading /\ threadId # NoThread
          /\ Len(messages') = Len(messages) + 1
          /\ SubSeq(messages', 1, Len(messages)) = messages
          /\ messages'[Len(messages')].role = "human"
          /\ messages'[Len(messages')].content = Trim(inputValue)
          /\ inputValue' = <<>>
          /\ isLoading'
          /\ error' = None
          /\ threadId' = threadId
          /\ Len(runs') = Len(runs) + 1
          /\ runs'[Len(runs')].thread = threadId
          /\ runs'[Len(runs')].userMessage = Trim(inputValue)
          /\ runs'[Len(runs')].seen = <<>>]_vars

\* the second send has just been accepted: its trimmed text is the last
\* message, the input is empty, the flag is up and the run has not begun
C11_Witness ==
  /\ Len(runs) = 2 /\ runs[2].pc = "stream" /\ runs[2].stage = "metadata"
  /\ runs[2].thread = threadId /\ runs[2].userMessage = <<"q">>
  /\ Len(messages) > 0
  /\ messages[Len(messages)].role = "human"
  /\ messages[Len(messages)].content = <<"q">>
  /\ inputValue = <<>> /\ isLoading /\ error = None

\* the positions of the 'values' events of a stream
ValuesAt(seen) == { i \in 1..Len(seen) : seen[i].event = "values" }

\* the step in which the loop of sendMessage takes an event that is no
\* 'values' event
TakesOther(r) ==
  /\ r \in 1..Len(runs) /\ runs[r].pc = "stream"
  /\ r \in 1..Len(runs') /\ runs'[r].pc = "stream"
  /\ Len(runs'[r].seen) = Len(runs[r].seen) + 1
  /\ runs'[r].seen[Len(runs'[r].seen)].event # "values"

\* C12: a stream that ends without a 'values' event, or whose last 'values'
\* event has no data, makes sendMessage return the fixed fallback text with
\* no EnrichedResponse; an event of another kind leaves the retained
\* snapshot, and so the result, as it was.
C12_NoSnapshot ==
  /\ [](\A r \in Returned :
          (ValuesAt(runs[r].seen) = {}
             \/ ~IsSome(runs[r].seen[MaxOf(ValuesAt(runs[r].seen))].data))
          => ResultOf(r) = [content |-> NoResponse, enriched |-> None])
  /\ [][\A r \in 1..MaxTurns :
          TakesOther(r) =>
            /\ runs'[r].finalState = runs[r].finalState
            /\ SendMessageResult(runs'[r].finalState)
                 = SendMessageResult(runs[r].finalState)]_vars

\* a snapshot with a usable enriched_response was followed by a 'values'
\* event without data, and sendMessage returned the fallback
C12_Witness ==
  \E r \in Returned :
    /\ Len(runs[r].seen) = 2
    /\ runs[r].seen[1].event = "values" /\ IsSome(runs[r].seen[1].data)
    /\ UseEnriched(Val(runs[r].seen[1].data))
    /\ runs[r].seen[2] = [event |-> "values", data |-> None]
    /\ ResultOf(r) = [content |-> NoResponse, enriched |-> None]

\* the run returned on the path that does not use enriched_response
DirectPath(r) ==
  /\ r \in Returned /\ HasFinal(r)
  /\ ~(FinalOf(r).action = "build_execute_query" /\ IsSome(FinalOf(r).enriched_response))

\* the messages of the final snapshot, none when the field is missing
FinalMessages(r) ==
  IF "messages" \in DOMAIN FinalOf(r) THEN FinalOf(r).messages ELSE <<>>

\* the positions of the assistant-tagged messages with text that is not blank
TextAnswers(msgs) ==
  { i \in 1..Len(msgs) :
      /\ msgs[i].type = "ai" \/ msgs[i].role = "assistant"
      /\ msgs[i].ctype = "string"
      /\ ~Blank(msgs[i].content) }

\* C13: on the path without enriched_response sendMessage returns the
\* trimmed content of the highest-index message tagged type 'ai' or role
\* 'assistant' whose content is a string that is not blank; when messages is
\* missing or has no such message it returns the fixed fallback text.
C13_DirectAnswer ==
  \A r \in Returned :
    DirectPath(r) =>
      LET msgs == FinalMessages(r)
          idx == TextAnswers(msgs)
      IN /\ ResultOf(r).enriched = None
         /\ ResultOf(r).content =
              IF idx = {} THEN NoResponse ELSE Trim(msgs[MaxOf(idx)].content)

\* the scan passed over a blank AI message and returned the text of a
\* message tagged by role only
C13_Witness ==
  \E r \in Returned :
    /\ DirectPath(r)
    /\ Len(FinalMessages(r)) = 2
    /\ FinalMessages(r)[1].role = "assistant" /\ FinalMessages(r)[1].type # "ai"
    /\ FinalMessages(r)[2].type = "ai" /\ Blank(FinalMessages(r)[2].content)
    /\ ResultOf(r).content = <<"b">>

\* the step in which handleNewChat runs (it makes one more createThread call)
NewChatStep == created' = created + 1

\* the step in which a pending createThread call is answered
CreateThreadSettles == creating' = creating - 1

\* C14: New Chat cannot happen while isLoading is true; its step leaves the
\* message list and the input empty and error null, keeps the thread id and
\* has the createThread call pending; when a createThread call succeeds the
\* thread id is replaced by a new one and error is null, when it fails error
\* is the connection message and the thread id is the one it was.
C14_NewChat ==
  /\ [](isLoading => ~ENABLED <<HandleNewChat>>_vars)
  /\ [][/\ NewChatStep =>
             /\ ~isLoading
             /\ messages' = <<>> /\ inputValue' = <<>> /\ error' = None
             /\ threadId' = threadId
             /\ creating' = creating + 1
        /\ CreateThreadSettles =>
             \/ /\ threadId' # threadId /\ threadId' # NoThread
                /\ \A r \in 1..Len(runs) : runs[r].thread # threadId'
                /\ error' = None
             \/ /\ threadId' = threadId
                /\ error' = Some(ConnectError)]_vars

\* after a Turn on thread 1 the user asked for a new chat and createThread
\* failed: the list is empty, the error is shown, the thread is still 1
C14_Witness ==
  /\ Len(runs) >= 1 /\ created = 2 /\ creating = 0
  /\ threadId = 1
  /\ messages = <<>>
  /\ error = Some(ConnectError)

\* C15: Enter without Shift calls onSend exactly when isLoading is false and
\* the value is not blank; Enter with Shift never calls it; the Send button
\* is enabled, and can be clicked, exactly under the same condition; the text
\* area is disabled, and reports no change, whenever isLoading is true.
C15_InputGating ==
  LET gate == ~isLoading /\ ~Blank(inputValue) IN
  /\ InvokesOnSend("Enter", FALSE) <=> gate
  /\ ~InvokesOnSend("Enter", TRUE)
  /\ \A shiftKey \in BOOLEAN :
       ENABLED <<HandleKeyDown("Enter", shiftKey)>>_vars => (~shiftKey /\ gate)
  /\ CanSend <=> gate
  /\ ENABLED <<ClickSend>>_vars => gate
  /\ isLoading => TextAreaDisabled
  /\ isLoading => \A v \in InputTexts : ~ENABLED <<OnChange(v)>>_vars

\* after a first Turn the user has typed white space only: the value is not
\* empty, yet neither Enter nor the Send button sends it
C15_Witness ==
  /\ Len(runs) = 1 /\ ~isLoading /\ threadId # NoThread
  /\ inputValue # <<>> /\ Blank(inputValue)
  /\ ~CanSend /\ ~InvokesOnSend("Enter", FALSE)

\* the positions of the assistant messages rendered with an EnrichedResponse
EnrichedAt == { i \in 1..Len(messages) :
                  messages[i].role = "assistant" /\ IsSome(messages[i].enriched) }

\* the positions of the spans of one kind inside a badge
SpansOf(badge, kind) == { j \in 1..Len(badge.spans) : badge.spans[j].kind = kind }

\* C16: the badge of an enriched assistant message is 'pass' exactly when
\* eval_passed is true and 'fail' otherwise; a category label appears only
\* when eval_passed is false and the category is not null, there is at most
\* one, it reads 'Misaligned Intent' exactly for misaligned_intent and
\* 'Ungrounded Output' otherwise; the score appears once in either case.
C16_Badge ==
  \A i \in EnrichedAt :
    LET e == Val(messages[i].enriched)
        badge == Badge(e)
        labels == SpansOf(badge, "category")
        scores == SpansOf(badge, "score")
    IN /\ badge.class \in {"pass", "fail"}
       /\ badge.class = "pass" <=> e.eval_passed = Some(TRUE)
       /\ labels # {} => (e.eval_passed = Some(FALSE) /\ e.eval_failure_category # NoCategory)
       /\ Cardinality(labels) <= 1
       /\ \A j \in labels :
            /\ badge.spans[j].text \in {"Misaligned Intent", "Ungrounded Output"}
            /\ badge.spans[j].text = "Misaligned Intent"
                 <=> e.eval_failure_category = "misaligned_intent"
       /\ Cardinality(scores) = 1
       /\ \A j \in scores : badge.spans[j].text = e.eval_score

\* a failed answer with category ungrounded_output is on the screen with
\* its label
C16_Witness ==
  \E i \in EnrichedAt :
    /\ Val(messages[i].enriched).eval_passed = Some(FALSE)
    /\ Val(messages[i].enriched).eval_failure_category = "ungrounded_output"
    /\ Badge(Val(messages[i].enriched)).class = "fail"
    /\ SpansOf(Badge(Val(messages[i].enriched)), "category") = {2}
    /\ Badge(Val(messages[i].enriched)).spans[2].text = "Ungrounded Output"

\* C17: the assistant message handleSend appends answers a run that was made
\* on the thread id current at the moment of the append, so the answer of a
\* Turn on the previous thread never enters the list of a new chat.
C17_ThreadIsolation ==
  [][\A r \in 1..MaxTurns :
       Resolves(r) => (runs[r].thread = threadId /\ runs[r].thread = threadId')]_vars

\* C18: when sendMessage returns a text other than the fallback on the path
\* without enriched_response, that text is the trimmed content of an AI
\* message the Turn itself produced, one that stands after the Turn's own
\* human message in the final snapshot, never of an earlier Turn's message.
C18_FreshAnswer ==
  \A r \in Returned :
    (DirectPath(r) /\ ResultOf(r).content # NoResponse) =>
      LET msgs == FinalMessages(r) IN
      \E i \in 1..Len(msgs) :
        /\ msgs[i].id = r
        /\ msgs[i].type = "ai" \/ msgs[i].role = "assistant"
        /\ msgs[i].ctype = "string"
        /\ Trim(msgs[i].content) = ResultOf(r).content
        /\ \E h \in 1..(i - 1) : msgs[h].id = r /\ msgs[h].type = "human"

====
